---- MODULE Spec2Model ----
(***************************************************************************)
(* Model of news_digest_script.py: the three source adapters (fetch_news,  *)
(* fetch_nba_scores, fetch_soccer_scores), the section loop and renderer   *)
(* of generate_html_digest, send_email and main.                           *)
(*                                                                         *)
(* Text is a sequence of character codes.  A JSON value read with          *)
(* dict.get is a record [t, s]: t = "absent" when the key is missing,      *)
(* "null" when the key holds JSON null (Python None), "str" when it holds  *)
(* the text s.  Nested JSON objects carry the same tag t with "obj".       *)
(***************************************************************************)
EXTENDS Integers, Sequences, FiniteSets, TLC

\* ------------------------------------------------------------------ bounds
\* Longest provider list (articles / events) drawn for one adapter call.
MaxItems == 6
\* Most items of one provider list that deviate from the well-formed item.
MaxAbnormal == 2
\* Article summaries are drawn with every length 0 .. budget + MaxOverBudget.
MaxOverBudget == 3

\* ------------------------------------------------------- program constants
\* article['description'][:200]
SummaryBudget == 200
\* data.get('events', [])[:5]
SoccerCap == 5

\* --------------------------------------------------------------- JSON text
Absent == [t |-> "absent", s |-> <<>>]
Null == [t |-> "null", s |-> <<>>]
Str(x) == [t |-> "str", s |-> x]
\* '' , '-' , 'TBD' : the defaults passed to dict.get
EmptyStr == Str(<<>>)
Dash == Str(<<45>>)
TBD == Str(<<84, 66, 68>>)
\* str(None), as an f-string formats a None field
NoneText == <<78, 111, 110, 101>>
\* the literal "..." appended after the summary slice
Ellipsis == <<46, 46, 46>>

\* dict.get(key, default): the default only when the key is missing; a key
\* holding null gives None.
Get(v, default) == IF v.t = "absent" THEN default ELSE v

\* An f-string field {x}: the text, or "None" for None.
Format(v) == IF v.t = "null" THEN NoneText ELSE v.s

\* The outcome of evaluating Python code that may raise: raised, or the value.
Raised(partial) == [raised |-> TRUE, out |-> partial]
Value(v) == [raised |-> FALSE, out |-> v]

Min(a, b) == IF a < b THEN a ELSE b
Prefix(list, n) == SubSeq(list, 1, Min(n, Len(list)))

\* What every adapter does before its loop: the request, raise_for_status,
\* json(), and data.get of the list; iterating or slicing None raises.
ResponseRaises(resp) ==
    resp.status # "ok" \/ resp.body.t # "obj" \/ resp.body.items.t = "null"

\* ------------------------------------------------------------- fetch_news
\* article.get('source', {}).get('name', ''): a missing source is {}, whose
\* name is missing; a null source is None, and None.get raises.
\* One dict literal of the loop body (lines 44-51): the record appended, or
\* the exception raised while building it.
NormalizeArticle(article) ==
    IF article.source.t = "null"
    THEN Raised(<<>>)
    ELSE Value(<<[title |-> Get(article.title, EmptyStr),
                  description |-> Get(article.description, EmptyStr),
                  url |-> Get(article.url, EmptyStr),
                  source |-> IF article.source.t = "absent"
                             THEN EmptyStr
                             ELSE Get(article.source.name, EmptyStr),
                  image |-> Get(article.urlToImage, EmptyStr),
                  publishedAt |-> Get(article.publishedAt, EmptyStr)]>>)

\* The for loop of fetch_news over the sliced list: articles grows by one
\* record per item until the list ends or an item raises.
RECURSIVE NewsLoop(_, _)
NewsLoop(list, articles) ==
    IF list = <<>>
    THEN Value(articles)
    ELSE LET r == NormalizeArticle(Head(list))
         IN  IF r.raised
             THEN Raised(articles)
             ELSE NewsLoop(Tail(list), articles \o r.out)

\* The try block of fetch_news: requests.get / raise_for_status / json() raise
\* on a failed response; data.get raises when the payload is no JSON object;
\* None[:n] raises when 'articles' is null; a missing 'articles' is [].
NewsTry(resp, num_articles) ==
    IF ResponseRaises(resp)
    THEN Raised(<<>>)
    ELSE NewsLoop(Prefix(resp.body.items.list, num_articles), <<>>)

\* A mutant: the except clause hands back the records built before the error.
FetchNewsPartial(resp, num_articles) ==
    Value(NewsTry(resp, num_articles).out)

\* A mutant: no except clause, the error leaves fetch_news.
FetchNewsUncaught(resp, num_articles) ==
    NewsTry(resp, num_articles)

\* fetch_news: the try block, and [] from the except clause.
FetchNews(resp, num_articles) ==
    LET r == NewsTry(resp, num_articles)
    IN  IF r.raised THEN Value(<<>>) ELSE r

\* ------------------------------------------- fetch_nba_scores / fetch_soccer_scores
\* {} : the default of event.get('competitions', [{}])[0] and of the nested
\* .get(..., {}) lookups.
AbsentObj == [t |-> "absent", displayName |-> Absent]
AbsentStatus == [t |-> "absent", type |-> [t |-> "absent", description |-> Absent]]
EmptyCompetition == [competitors |-> [t |-> "absent", list |-> <<>>],
                     status |-> AbsentStatus]

\* event.get('competitions', [{}])[0]: {} when the key is missing; None[0]
\* and [][0] raise.
FirstCompetition(event) ==
    CASE event.competitions.t = "absent" -> Value(EmptyCompetition)
      [] event.competitions.t = "null" -> Raised(<<>>)
      [] OTHER -> IF event.competitions.list = <<>>
                  THEN Raised(<<>>)
                  ELSE Value(Head(event.competitions.list))

\* competitor.get('team', {}).get('displayName', ''): None.get raises.
TeamName(competitor) ==
    CASE competitor.team.t = "absent" -> Value(EmptyStr)
      [] competitor.team.t = "null" -> Raised(<<>>)
      [] OTHER -> Value(Get(competitor.team.displayName, EmptyStr))

\* competition.get('status', {}).get('type', {}).get('description', 'TBD')
StatusDescription(competition) ==
    CASE competition.status.t = "absent" -> Value(TBD)
      [] competition.status.t = "null" -> Raised(<<>>)
      [] competition.status.type.t = "absent" -> Value(TBD)
      [] competition.status.type.t = "null" -> Raised(<<>>)
      [] OTHER -> Value(Get(competition.status.type.description, TBD))

\* One iteration of the scoreboard loop (lines 67-75, 91-99, 128-136): no
\* record for an event with fewer than two competitors, one record otherwise,
\* or the exception raised on the way (len(None) for null competitors).
NormalizeEvent(event) ==
    LET c == FirstCompetition(event)
    IN  IF c.raised \/ c.out.competitors.t = "null"
        THEN Raised(<<>>)
        ELSE LET competitors == IF c.out.competitors.t = "absent"
                                THEN <<>>
                                ELSE c.out.competitors.list
                 home == TeamName(competitors[1])
                 away == TeamName(competitors[2])
                 status == StatusDescription(c.out)
             IN  IF Len(competitors) < 2
                 THEN Value(<<>>)
                 ELSE IF home.raised \/ away.raised \/ status.raised
                      THEN Raised(<<>>)
                      ELSE Value(<<[home |-> home.out,
                                    away |-> away.out,
                                    home_score |-> Get(competitors[1].score, Dash),
                                    away_score |-> Get(competitors[2].score, Dash),
                                    status |-> status.out]>>)

\* The for loop over the events: games grows by at most one record per event.
RECURSIVE ScoreLoop(_, _)
ScoreLoop(list, games) ==
    IF list = <<>>
    THEN Value(games)
    ELSE LET r == NormalizeEvent(Head(list))
         IN  IF r.raised
             THEN Raised(games)
             ELSE ScoreLoop(Tail(list), games \o r.out)

\* The try block of fetch_nba_scores: the loop runs over every event.
NbaTry(resp) ==
    IF ResponseRaises(resp)
    THEN Raised(<<>>)
    ELSE ScoreLoop(resp.body.items.list, <<>>)

\* fetch_nba_scores: {'games': games, 'date': today}, with games [] from the
\* except clause.
FetchNbaScores(resp) ==
    LET r == NbaTry(resp)
    IN  Value([games |-> IF r.raised THEN <<>> ELSE r.out, date |-> "today"])

\* league_map of fetch_soccer_scores.
LeagueMap ==
    [l \in {"premier-league", "champions-league", "europa-league",
            "championship", "fa-cup", "carabao-cup"} |->
        CASE l = "premier-league" -> "soccer/eng.1"
          [] l = "champions-league" -> "soccer/uefa.champions"
          [] l = "europa-league" -> "soccer/uefa.europa"
          [] l = "championship" -> "soccer/eng.2"
          [] l = "fa-cup" -> "soccer/eng.fa"
          [] l = "carabao-cup" -> "soccer/eng.cup"]

\* league_map.get(league, '')
LeagueId(league) == IF league \in DOMAIN LeagueMap THEN LeagueMap[league] ELSE ""

\* The try block of fetch_soccer_scores after the league lookup.
SoccerTry(resp) ==
    IF ResponseRaises(resp)
    THEN Raised(<<>>)
    ELSE ScoreLoop(Prefix(resp.body.items.list, SoccerCap), <<>>)

\* fetch_soccer_scores: [] for an unknown league, without a request; else the
\* try block, and [] from the except clause.
FetchSoccerScores(league, resp) ==
    IF LeagueId(league) = ""
    THEN Value(<<>>)
    ELSE LET r == SoccerTry(resp)
         IN  IF r.raised THEN Value(<<>>) ELSE r

\* ------------------------------------------------------------ provider data
\* The provider responses an adapter call is checked on.  Item i of a list
\* carries i in its texts, so that order and identity are visible.
GoodArticle(i) ==
    [title |-> Str(<<i>>), description |-> Str(<<i, i>>), url |-> Str(<<i>>),
     source |-> [t |-> "obj", name |-> Str(<<i>>)],
     urlToImage |-> Str(<<i>>), publishedAt |-> Str(<<i>>)]

ArticleKinds ==
    {"null_title", "null_description", "null_source", "null_source_name",
     "absent_fields"}

ArticleOf(kind, i) ==
    CASE kind = "null_title" -> [GoodArticle(i) EXCEPT !.title = Null]
      [] kind = "null_description" -> [GoodArticle(i) EXCEPT !.description = Null]
      [] kind = "null_source" ->
            [GoodArticle(i) EXCEPT !.source = [t |-> "null", name |-> Absent]]
      [] kind = "null_source_name" ->
            [GoodArticle(i) EXCEPT !.source = [t |-> "obj", name |-> Null]]
      [] kind = "absent_fields" ->
            [title |-> Absent, description |-> Absent, url |-> Absent,
             source |-> [t |-> "absent", name |-> Absent],
             urlToImage |-> Absent, publishedAt |-> Absent]

GoodCompetitor(i, side) ==
    [team |-> [t |-> "obj", displayName |-> Str(<<i, side>>)],
     score |-> Str(<<i + side>>)]

GoodStatus ==
    [t |-> "obj", type |-> [t |-> "obj", description |-> Str(<<70>>)]]

EventWith(competitors, status) ==
    [competitions |->
        [t |-> "list",
         list |-> <<[competitors |-> [t |-> "list", list |-> competitors],
                     status |-> status]>>]]

GoodEvent(i) ==
    EventWith(<<GoodCompetitor(i, 1), GoodCompetitor(i, 2)>>, GoodStatus)

EventKinds ==
    {"one_competitor", "no_competitions", "absent_competitions", "null_score",
     "absent_fields", "null_team", "null_status", "null_status_description"}

EventOf(kind, i) ==
    CASE kind = "one_competitor" -> EventWith(<<GoodCompetitor(i, 1)>>, GoodStatus)
      [] kind = "no_competitions" -> [competitions |-> [t |-> "list", list |-> <<>>]]
      [] kind = "absent_competitions" ->
            [competitions |-> [t |-> "absent", list |-> <<>>]]
      [] kind = "null_score" ->
            EventWith(<<[GoodCompetitor(i, 1) EXCEPT !.score = Null],
                        GoodCompetitor(i, 2)>>, GoodStatus)
      [] kind = "absent_fields" ->
            EventWith(<<[team |-> AbsentObj, score |-> Absent],
                        [team |-> AbsentObj, score |-> Absent]>>, AbsentStatus)
      [] kind = "null_team" ->
            EventWith(<<GoodCompetitor(i, 1),
                        [GoodCompetitor(i, 2) EXCEPT !.team.t = "null"]>>, GoodStatus)
      [] kind = "null_status" ->
            EventWith(<<GoodCompetitor(i, 1), GoodCompetitor(i, 2)>>,
                      [AbsentStatus EXCEPT !.t = "null"])
      [] kind = "null_status_description" ->
            EventWith(<<GoodCompetitor(i, 1), GoodCompetitor(i, 2)>>,
                      [GoodStatus EXCEPT !.type.description = Null])

\* A provider list of n items: well formed but for the positions that
\* deviations maps to a kind.
ArticleList(n, deviations) ==
    [i \in 1..n |-> IF i \in DOMAIN deviations
                    THEN ArticleOf(deviations[i], i)
                    ELSE GoodArticle(i)]
EventList(n, deviations) ==
    [i \in 1..n |-> IF i \in DOMAIN deviations
                    THEN EventOf(deviations[i], i)
                    ELSE GoodEvent(i)]

\* The positions of a list of n items that may deviate together.
DeviatingPositions(n) == {a \in SUBSET (1..n) : Cardinality(a) <= MaxAbnormal}

\* A response: the failures of requests.get / raise_for_status / json(), or
\* a parsed body; the body is a JSON object or not, and its list ('articles',
\* 'events') is missing, null or a list.
FailureStatuses == {"network_error", "timeout", "http_error", "bad_json"}
NoBody == [t |-> "none", items |-> [t |-> "absent", list |-> <<>>]]
Failure(status) == [status |-> status, body |-> NoBody]
OkList(list) ==
    [status |-> "ok", body |-> [t |-> "obj", items |-> [t |-> "list", list |-> list]]]
OddBodies ==
    {[status |-> "ok", body |-> [t |-> "array", items |-> [t |-> "absent", list |-> <<>>]]],
     [status |-> "ok", body |-> [t |-> "obj", items |-> [t |-> "absent", list |-> <<>>]]],
     [status |-> "ok", body |-> [t |-> "obj", items |-> [t |-> "null", list |-> <<>>]]]}
NoListResponses == {Failure(st) : st \in FailureStatuses} \cup OddBodies
NoResponse == [status |-> "none", body |-> NoBody]

\* ------------------------------------------------------------ configuration
\* The settings __init__ requires; each is missing from the environment,
\* set to the empty string, or set.
RequiredSettings == {"NEWS_API_KEY", "SENDER_EMAIL", "SENDER_PASSWORD", "RECIPIENT_EMAIL"}
Environments == [RequiredSettings -> {"absent", "empty", "set"}]

\* A mutant: the recipient address is not among the settings checked.
ConfigOKNoRecipient(e) ==
    \A k \in RequiredSettings \ {"RECIPIENT_EMAIL"} : e[k] = "set"

\* all([news_api_key, sender_email, sender_password, recipient_email]):
\* None and '' are both false.
ConfigOK(e) == \A k \in RequiredSettings : e[k] = "set"

\* news_sections of generate_html_digest, in insertion order.
NewsSections ==
    <<[title |-> "Top 5 US News", query |-> "US news", count |-> 5],
      [title |-> "Top 5 Europe News", query |-> "Europe news", count |-> 5],
      [title |-> "Top 5 Africa News", query |-> "Africa news", count |-> 5],
      [title |-> "Top 3 India News", query |-> "India news", count |-> 3],
      [title |-> "Top 3 China News", query |-> "China news", count |-> 3],
      [title |-> "Top 5 NBA News", query |-> "NBA basketball", count |-> 5],
      [title |-> "Top 5 NFL News", query |-> "NFL football", count |-> 5],
      [title |-> "Top 5 Premier League News", query |-> "English Premier League", count |-> 5],
      [title |-> "Top 2 West Ham News", query |-> "West Ham United", count |-> 2]>>

NbaTitle == "NBA Scores (Previous Day)"
SoccerTitle == "Soccer Scores"

\* soccer_leagues of generate_html_digest, in insertion order.
SoccerLeagues ==
    <<[name |-> "Premier League", id |-> "premier-league"],
      [name |-> "Champions League", id |-> "champions-league"],
      [name |-> "Europa League", id |-> "europa-league"],
      [name |-> "EFL Championship", id |-> "championship"],
      [name |-> "FA Cup", id |-> "fa-cup"],
      [name |-> "Carabao Cup", id |-> "carabao-cup"]>>

\* ------------------------------------------------------------------ renderer
\* The artifact is the sequence of blocks appended to html.
Block(tag, text, fields) == [tag |-> tag, text |-> text, fields |-> fields]
Header == Block("h1", "Daily News Digest", <<>>)
Footer == Block("footer", "This is an automated daily digest.", <<>>)
NoArticles == Block("p", "No articles found at this time.", <<>>)
NoGames == Block("p", "No games to display.", <<>>)
NoMatches == Block("p", "No matches to display.", <<>>)

\* {article['description'][:200]}... : the slice of a None raises; the
\* marker follows the slice whatever its length.
RenderSummary(description) ==
    IF description.t = "null"
    THEN Raised(<<>>)
    ELSE Value(Prefix(description.s, SummaryBudget) \o Ellipsis)

\* The article block of lines 187-194.
ArticleBlock(article) ==
    LET summary == RenderSummary(article.description)
    IN  IF summary.raised
        THEN Raised(<<>>)
        ELSE Value(<<Block("article", "",
                           <<Format(article.title), summary.out,
                             Format(article.source), Format(article.url)>>)>>)

\* The score blocks of lines 203-209 and 229-234.
NbaBlock(game) ==
    Block("score", "", <<Format(game.away), Format(game.home),
                         Format(game.away_score), Format(game.home_score),
                         Format(game.status)>>)
SoccerBlock(game) ==
    Block("score", "", <<Format(game.away), Format(game.home),
                         Format(game.away_score), Format(game.home_score)>>)

\* for article in articles: html += ... ; the blocks appended so far when a
\* block raises.
RECURSIVE ArticleBlocks(_, _)
ArticleBlocks(articles, blocks) ==
    IF articles = <<>>
    THEN Value(blocks)
    ELSE LET b == ArticleBlock(Head(articles))
         IN  IF b.raised
             THEN Raised(blocks)
             ELSE ArticleBlocks(Tail(articles), blocks \o b.out)

\* A mutant: a section without articles is left out of the artifact.
RenderNewsSkipEmpty(title, articles) ==
    IF articles # <<>>
    THEN LET body == ArticleBlocks(articles, <<>>)
         IN  [body EXCEPT !.out = <<Block("h2", title, <<>>)>> \o body.out]
    ELSE Value(<<>>)

\* Lines 183-196: the heading, then the article blocks or the placeholder.
RenderNews(title, articles) ==
    LET body == IF articles # <<>>
                THEN ArticleBlocks(articles, <<>>)
                ELSE Value(<<NoArticles>>)
    IN  [body EXCEPT !.out = <<Block("h2", title, <<>>)>> \o body.out]

\* Lines 201-211: the heading was appended before the call.
RenderNba(nba_data) ==
    IF nba_data.games # <<>>
    THEN [i \in 1..Len(nba_data.games) |-> NbaBlock(nba_data.games[i])]
    ELSE <<NoGames>>

\* Lines 226-236.
RenderSoccer(league_name, games) ==
    <<Block("h3", league_name, <<>>)>> \o
    (IF games # <<>>
     THEN [i \in 1..Len(games) |-> SoccerBlock(games[i])]
     ELSE <<NoMatches>>)

\* ------------------------------------------------------------------- state
VARIABLES
    env,         \* the required settings of the process environment
    pc,          \* where main / generate_html_digest stands
    sec,         \* index of the current entry of news_sections / soccer_leagues
    items,       \* articles / nba_data / games: what the last adapter call returned
    html,        \* the blocks appended to html so far
    resp,        \* the provider's response to the adapter call just made
    call,        \* the adapter call under test (adapter specification only)
    fetchCalls,  \* adapter calls made so far
    sendCalls,   \* send_email calls made so far
    sendResult,  \* what the SMTP exchange of send_email did
    exitStatus,  \* the status the process exits with
    digest,      \* history: the items each adapter call returned, in call order
    failed       \* history: the calls (by position) whose request failed

vars == <<env, pc, sec, items, html, resp, call, fetchCalls, sendCalls,
          sendResult, exitStatus, digest, failed>>

NoCall == [fn |-> "none", num_articles |-> 0, league |-> ""]

\* What the providers hold during the run: well-formed items, a different
\* number for each section.
ProviderArticles(k) == [i \in 1..((2 * k) % (MaxItems + 1)) |-> GoodArticle(i)]
NbaEvents == [i \in 1..MaxItems |-> GoodEvent(i)]
LeagueEvents(k) == [i \in 1..((2 * (k - 1)) % (MaxItems + 1)) |-> GoodEvent(i)]

\* The responses an adapter call of the run may receive: a failed request,
\* the provider's list, or (news) the list with a null description in its
\* first article.
RunResponses(list) == {Failure(st) : st \in FailureStatuses} \cup {OkList(list)}
NewsRunResponses(k) ==
    RunResponses(ProviderArticles(k)) \cup
    (IF ProviderArticles(k) = <<>>
     THEN {}
     ELSE {OkList([ProviderArticles(k) EXCEPT ![1] = ArticleOf("null_description", 1)])})

Init ==
    /\ env \in Environments
    /\ pc = "main"
    /\ sec = 0
    /\ items = <<>>
    /\ html = <<>>
    /\ resp = NoResponse
    /\ call = NoCall
    /\ fetchCalls = 0
    /\ sendCalls = 0
    /\ sendResult = "none"
    /\ exitStatus = 0
    /\ digest = <<>>
    /\ failed = {}

\* ------------------------------------------------------------------ actions
\* generator = NewsDigestGenerator(): __init__ raises ValueError unless every
\* required setting is set.
Construct ==
    /\ pc = "main"
    /\ pc' = IF ConfigOK(env) THEN "generate" ELSE "except"
    /\ UNCHANGED <<env, sec, items, html, resp, call, fetchCalls, sendCalls,
                   sendResult, exitStatus, digest, failed>>

\* generate_html_digest up to the first loop: html holds the page header.
BeginDigest ==
    /\ pc = "generate"
    /\ html' = <<Header>>
    /\ sec' = 1
    /\ pc' = "news_fetch"
    /\ UNCHANGED <<env, items, resp, call, fetchCalls, sendCalls, sendResult,
                   exitStatus, digest, failed>>

\* What an adapter call leaves behind: its value in items and in the
\* history, or, had it raised, the exception on its way to main.
Returned(r, out, next) ==
    /\ resp' = r
    /\ fetchCalls' = fetchCalls + 1
    /\ failed' = IF r.status # "ok" THEN failed \cup {fetchCalls + 1} ELSE failed
    /\ IF out.raised
       THEN /\ pc' = "except"
            /\ UNCHANGED <<items, digest>>
       ELSE /\ pc' = next
            /\ items' = out.out
            /\ digest' = Append(digest, out.out)
    /\ UNCHANGED <<env, sec, html, call, sendCalls, sendResult, exitStatus>>

\* articles = self.fetch_news(query, count)
FetchNewsSection ==
    /\ pc = "news_fetch"
    /\ \E r \in NewsRunResponses(sec) :
          Returned(r, FetchNews(r, NewsSections[sec].count), "news_render")

\* A mutant: the call is hoisted out of the loop, the next entry is rendered
\* from the articles of the previous one.
AfterNewsNoFetch(k) == IF k < Len(NewsSections) THEN "news_render" ELSE "nba_heading"

\* The pc after a news section is rendered: the next entry, or the NBA part.
AfterNews(k) == IF k < Len(NewsSections) THEN "news_fetch" ELSE "nba_heading"

\* The rest of one iteration of the news loop; an exception in a block
\* leaves generate_html_digest.
RenderNewsSection ==
    /\ pc = "news_render"
    /\ LET r == RenderNews(NewsSections[sec].title, items)
       IN  /\ html' = html \o r.out
           /\ IF r.raised
              THEN pc' = "except" /\ sec' = sec
              ELSE pc' = AfterNews(sec) /\ sec' = sec + 1
    /\ resp' = NoResponse
    /\ UNCHANGED <<env, items, call, fetchCalls, sendCalls, sendResult,
                   exitStatus, digest, failed>>

\* html += "<h2>NBA Scores (Previous Day)</h2>", before the call.
NbaHeading ==
    /\ pc = "nba_heading"
    /\ html' = Append(html, Block("h2", NbaTitle, <<>>))
    /\ pc' = "nba_fetch"
    /\ UNCHANGED <<env, sec, items, resp, call, fetchCalls, sendCalls,
                   sendResult, exitStatus, digest, failed>>

\* nba_data = self.fetch_nba_scores()
FetchNba ==
    /\ pc = "nba_fetch"
    /\ \E r \in RunResponses(NbaEvents) :
          LET out == FetchNbaScores(r)
          IN  /\ resp' = r
              /\ fetchCalls' = fetchCalls + 1
              /\ failed' = IF r.status # "ok" THEN failed \cup {fetchCalls + 1} ELSE failed
              /\ items' = out.out
              /\ digest' = Append(digest, out.out.games)
              /\ pc' = "nba_render"
    /\ UNCHANGED <<env, sec, html, call, sendCalls, sendResult, exitStatus>>

RenderNbaSection ==
    /\ pc = "nba_render"
    /\ html' = html \o RenderNba(items)
    /\ pc' = "soccer_heading"
    /\ resp' = NoResponse
    /\ UNCHANGED <<env, sec, items, call, fetchCalls, sendCalls, sendResult,
                   exitStatus, digest, failed>>

\* html += "<h2>Soccer Scores</h2>"
SoccerHeading ==
    /\ pc = "soccer_heading"
    /\ html' = Append(html, Block("h2", SoccerTitle, <<>>))
    /\ sec' = 1
    /\ pc' = "soccer_fetch"
    /\ UNCHANGED <<env, items, resp, call, fetchCalls, sendCalls, sendResult,
                   exitStatus, digest, failed>>

\* games = self.fetch_soccer_scores(league_id)
FetchSoccerLeague ==
    /\ pc = "soccer_fetch"
    /\ \E r \in RunResponses(LeagueEvents(sec)) :
          Returned(r, FetchSoccerScores(SoccerLeagues[sec].id, r), "soccer_render")

RenderSoccerLeague ==
    /\ pc = "soccer_render"
    /\ html' = html \o RenderSoccer(SoccerLeagues[sec].name, items)
    /\ pc' = IF sec < Len(SoccerLeagues) THEN "soccer_fetch" ELSE "footer"
    /\ sec' = sec + 1
    /\ resp' = NoResponse
    /\ UNCHANGED <<env, items, call, fetchCalls, sendCalls, sendResult,
                   exitStatus, digest, failed>>

\* The footer, and return html.
EndDigest ==
    /\ pc = "footer"
    /\ html' = Append(html, Footer)
    /\ pc' = "send"
    /\ UNCHANGED <<env, sec, items, resp, call, fetchCalls, sendCalls,
                   sendResult, exitStatus, digest, failed>>

\* What the SMTP exchange can do: connect, login and send in turn.
SmtpOutcomes == {"sent", "connect_error", "login_error", "send_error"}

\* A mutant: the except clause of send_email prints and does not re-raise.
SendEmailSwallows(outcome) == FALSE

\* send_email raises when the exchange fails: its except clause re-raises.
SendEmailRaises(outcome) == outcome # "sent"

\* generator.send_email(html_digest)
SendEmail ==
    /\ pc = "send"
    /\ \E outcome \in SmtpOutcomes :
          /\ sendResult' = outcome
          /\ pc' = IF SendEmailRaises(outcome) THEN "except" ELSE "completed"
    /\ sendCalls' = sendCalls + 1
    /\ UNCHANGED <<env, sec, items, html, resp, call, fetchCalls, exitStatus,
                   digest, failed>>

\* main's except clause: print the fatal error and exit(1).
MainExcept ==
    /\ pc = "except"
    /\ exitStatus' = 1
    /\ pc' = "exited"
    /\ UNCHANGED <<env, sec, items, html, resp, call, fetchCalls, sendCalls,
                   sendResult, digest, failed>>

\* main returns after "Daily digest completed successfully!".
MainReturn ==
    /\ pc = "completed"
    /\ pc' = "exited"
    /\ UNCHANGED <<env, sec, items, html, resp, call, fetchCalls, sendCalls,
                   sendResult, exitStatus, digest, failed>>

Next ==
    \/ Construct
    \/ BeginDigest
    \/ FetchNewsSection
    \/ RenderNewsSection
    \/ NbaHeading
    \/ FetchNba
    \/ RenderNbaSection
    \/ SoccerHeading
    \/ FetchSoccerLeague
    \/ RenderSoccerLeague
    \/ EndDigest
    \/ SendEmail
    \/ MainExcept
    \/ MainReturn

Spec == Init /\ [][Next]_vars

\* ------------------------------------------- one adapter call, any response
\* The calls generate_html_digest makes, and a league outside league_map.
AdapterCalls ==
    {[fn |-> "fetch_news", num_articles |-> NewsSections[k].count, league |-> ""] :
        k \in DOMAIN NewsSections}
    \cup {[fn |-> "fetch_nba_scores", num_articles |-> 0, league |-> ""]}
    \cup {[fn |-> "fetch_soccer_scores", num_articles |-> 0, league |-> l] :
            l \in {"premier-league", "mls"}}

InitAdapter ==
    /\ env = [k \in RequiredSettings |-> "set"]
    /\ pc = "call"
    /\ call \in AdapterCalls
    /\ \/ resp \in NoListResponses
       \/ \E n \in 0..MaxItems : \E positions \in DeviatingPositions(n) :
             IF call.fn = "fetch_news"
             THEN \E deviations \in [positions -> ArticleKinds] :
                     resp = OkList(ArticleList(n, deviations))
             ELSE \E deviations \in [positions -> EventKinds] :
                     resp = OkList(EventList(n, deviations))
    /\ sec = 0
    /\ items = <<>>
    /\ html = <<>>
    /\ fetchCalls = 0
    /\ sendCalls = 0
    /\ sendResult = "none"
    /\ exitStatus = 0
    /\ digest = <<>>
    /\ failed = {}

AdapterReturns(value) ==
    /\ items' = value
    /\ pc' = "returned"
    /\ fetchCalls' = fetchCalls + 1
    /\ UNCHANGED <<env, sec, html, resp, call, sendCalls, sendResult,
                   exitStatus, digest, failed>>

CallFetchNews ==
    /\ pc = "call"
    /\ call.fn = "fetch_news"
    /\ AdapterReturns(FetchNews(resp, call.num_articles).out)

CallFetchNbaScores ==
    /\ pc = "call"
    /\ call.fn = "fetch_nba_scores"
    /\ AdapterReturns(FetchNbaScores(resp).out.games)

CallFetchSoccerScores ==
    /\ pc = "call"
    /\ call.fn = "fetch_soccer_scores"
    /\ AdapterReturns(FetchSoccerScores(call.league, resp).out)

NextAdapter ==
    \/ CallFetchNews
    \/ CallFetchNbaScores
    \/ CallFetchSoccerScores

SpecAdapter == InitAdapter /\ [][NextAdapter]_vars

\* --------------------------------------- one news section, any summary length
\* Summaries of every length up to the budget and MaxOverBudget beyond it,
\* plain or ending in full stops.
Summary(n, dotted) ==
    [i \in 1..n |-> IF dotted /\ i > n - 3 THEN 46 ELSE 97 + (i % 3)]

SummaryArticle(n, dotted) ==
    [GoodArticle(1) EXCEPT !.description = Str(Summary(n, dotted))]

\* The run after fetch_news returned one article for the first section.
InitRender ==
    /\ env = [k \in RequiredSettings |-> "set"]
    /\ pc = "news_render"
    /\ sec = 1
    /\ \E n \in 0..(SummaryBudget + MaxOverBudget), dotted \in BOOLEAN :
          /\ resp = OkList(<<SummaryArticle(n, dotted)>>)
          /\ items = FetchNews(resp, NewsSections[1].count).out
    /\ html = <<Header>>
    /\ call = NoCall
    /\ fetchCalls = 1
    /\ sendCalls = 0
    /\ sendResult = "none"
    /\ exitStatus = 0
    /\ digest = <<items>>
    /\ failed = {}

SpecRender == InitRender /\ [][RenderNewsSection]_vars

\* ======================================================= checked properties
\* ------------------------------------------------ reading the artifact back
ConfiguredLabels ==
    [k \in 1..Len(NewsSections) |-> NewsSections[k].title]
    \o <<NbaTitle>>
    \o [k \in 1..Len(SoccerLeagues) |-> SoccerLeagues[k].name]

NumSections == Len(ConfiguredLabels)

IsSectionHeading(b) == b.tag \in {"h2", "h3"} /\ b.text # SoccerTitle
IsBody(b) == b.tag \in {"article", "score", "p"}

SectionHeadings(h) == SelectSeq(h, IsSectionHeading)
SectionLabels(h) == [k \in 1..Len(SectionHeadings(h)) |-> SectionHeadings(h)[k].text]

\* The artifact read in one pass: each section heading opens a section, the
\* body blocks that follow it are its body, any other block closes it.
RECURSIVE ReadSections(_, _, _, _)
ReadSections(h, i, open, acc) ==
    IF i > Len(h)
    THEN acc
    ELSE IF IsSectionHeading(h[i])
         THEN ReadSections(h, i + 1, TRUE,
                           Append(acc, [label |-> h[i].text, body |-> <<>>]))
         ELSE IF IsBody(h[i]) /\ open
              THEN ReadSections(h, i + 1, TRUE,
                                [acc EXCEPT ![Len(acc)].body = Append(@, h[i])])
              ELSE ReadSections(h, i + 1, FALSE, acc)
Sections(h) == ReadSections(h, 1, FALSE, <<>>)

\* Sections whose items or placeholder are in the artifact.
Bodies(h) ==
    Cardinality({i \in 1..(Len(h) - 1) : IsSectionHeading(h[i]) /\ IsBody(h[i + 1])})

Placeholder(k) ==
    IF k <= Len(NewsSections) THEN NoArticles
    ELSE IF k = Len(NewsSections) + 1 THEN NoGames ELSE NoMatches

\* The records of the provider's well-formed items, written out.
ExpectedArticle(i) ==
    [title |-> Str(<<i>>), description |-> Str(<<i, i>>), url |-> Str(<<i>>),
     source |-> Str(<<i>>), image |-> Str(<<i>>), publishedAt |-> Str(<<i>>)]
ExpectedGame(i) ==
    [home |-> Str(<<i, 1>>), away |-> Str(<<i, 2>>),
     home_score |-> Str(<<i + 1>>), away_score |-> Str(<<i + 2>>),
     status |-> Str(<<70>>)]
\* What section k holds in the run where its call does not fail.
ExpectedItems(k) ==
    IF k <= Len(NewsSections)
    THEN [i \in 1..Min(NewsSections[k].count, Len(ProviderArticles(k))) |->
            ExpectedArticle(i)]
    ELSE IF k = Len(NewsSections) + 1
         THEN [i \in 1..Len(NbaEvents) |-> ExpectedGame(i)]
         ELSE [i \in 1..Min(SoccerCap, Len(LeagueEvents(k - Len(NewsSections) - 1))) |->
                 ExpectedGame(i)]

GenerationReturned == pc = "send"
Fatal == pc = "exited" /\ exitStatus = 1
Success == pc = "exited" /\ exitStatus = 0

\* C1: failure isolation.  An adapter call whose request fails (network
\* error, timeout, HTTP error status, unparsable payload) returns to the
\* section loop with an empty items sequence; and when generate_html_digest
\* returns, every section whose call failed is empty, every other section
\* holds exactly the items of the run where no call fails, and every
\* section is in the artifact in configured order.
C1_FailureIsolation ==
    [][/\ (fetchCalls' = fetchCalls + 1 /\ resp'.status \in FailureStatuses)
            => /\ digest' = Append(digest, <<>>)
               /\ pc' \in {"news_render", "nba_render", "soccer_render"}
       /\ \A k \in 1..Len(digest') : k \in failed' => digest'[k] = <<>>
       /\ GenerationReturned'
            => /\ Len(digest') = NumSections
               /\ \A k \in 1..NumSections :
                     digest'[k] = IF k \in failed' THEN <<>> ELSE ExpectedItems(k)
               /\ SectionLabels(html') = ConfiguredLabels]_vars

\* Scenario D: the first section's call failed, the second succeeded, and
\* the digest was assembled with the first empty and the second filled.
C1_Witness ==
    /\ GenerationReturned
    /\ 1 \in failed
    /\ 2 \notin failed
    /\ digest[1] = <<>>
    /\ Len(digest[2]) = 4

\* C2: only configuration or delivery failures fail the run.  A run with
\* every required setting set, whose delivery did not fail, does not end
\* with the fatal exit, whatever the providers answered.
C2_OnlyConfigOrDeliveryFatal ==
    (pc = "exited" /\ (\A k \in RequiredSettings : env[k] = "set")
        /\ sendResult \notin SmtpOutcomes \ {"sent"})
    => (Success /\ sendResult = "sent")

\* C3: the artifact generate_html_digest returns holds one heading per
\* configured section label, in configured order, and under each heading the
\* section's items, or its placeholder when the section has no items.
C3_EverySectionRendered ==
    GenerationReturned
    => LET sections == Sections(html)
       IN  /\ [k \in 1..Len(sections) |-> sections[k].label] = ConfiguredLabels
           /\ \A k \in 1..NumSections :
                 IF digest[k] = <<>>
                 THEN sections[k].body = <<Placeholder(k)>>
                 ELSE /\ Len(sections[k].body) = Len(digest[k])
                      /\ \A i \in 1..Len(digest[k]) :
                            sections[k].body[i].tag \in {"article", "score"}

\* Scenario A: no call failed, and the sections whose provider holds nothing
\* (a news section and a league) are empty next to filled ones.
C3_Witness ==
    /\ GenerationReturned
    /\ failed = {}
    /\ \E k \in 1..Len(NewsSections) : digest[k] = <<>>
    /\ \E k \in (Len(NewsSections) + 2)..NumSections : digest[k] = <<>>
    /\ digest[1] # <<>>

\* C7: a delivery failure is fatal.  Once send_email's SMTP exchange has
\* failed, the run is in main's except clause or has exited with status 1,
\* never completed; and send_email is called at most once.
C7_DeliveryFailureFatal ==
    /\ sendCalls <= 1
    /\ sendResult \in SmtpOutcomes \ {"sent"}
        => /\ pc \in {"except", "exited"}
           /\ pc = "exited" => exitStatus = 1

\* The digest was assembled to its footer, the login failed, the run ended
\* with exit status 1.
C7_Witness ==
    /\ Fatal
    /\ sendResult = "login_error"
    /\ sendCalls = 1
    /\ html # <<>> /\ html[Len(html)] = Footer
    /\ fetchCalls = NumSections

\* C8: a configuration failure is fatal and precedes all fetching.  With a
\* required setting missing or empty, the run makes no adapter call and no
\* delivery attempt, and ends with exit status 1.
C8_ConfigFailureFatal ==
    (\E k \in RequiredSettings : env[k] # "set")
    => /\ fetchCalls = 0
       /\ sendCalls = 0
       /\ html = <<>>
       /\ pc \in {"main", "except", "exited"}
       /\ pc = "exited" => exitStatus = 1

\* Only the recipient address is missing (set to the empty string), and the
\* run has ended with exit status 1.
C8_Witness ==
    /\ Fatal
    /\ env["RECIPIENT_EMAIL"] = "empty"
    /\ \A k \in RequiredSettings \ {"RECIPIENT_EMAIL"} : env[k] = "set"

GotList == resp.status = "ok" /\ resp.body.t = "obj" /\ resp.body.items.t = "list"
Visited ==
    IF ~GotList
    THEN <<>>
    ELSE CASE call.fn = "fetch_news" -> Prefix(resp.body.items.list, call.num_articles)
           [] call.fn = "fetch_nba_scores" -> resp.body.items.list
           [] OTHER -> IF call.league \in DOMAIN LeagueMap
                       THEN Prefix(resp.body.items.list, SoccerCap)
                       ELSE <<>>
ItemOutcome(x) == IF call.fn = "fetch_news" THEN NormalizeArticle(x) ELSE NormalizeEvent(x)
ItemRaises(i) == ItemOutcome(Visited[i]).raised
\* The visited items that give a record, and the j-th of them.
Kept == {i \in 1..Len(Visited) : ItemOutcome(Visited[i]).out # <<>>}
KeptAt(j) == CHOOSE i \in Kept : Cardinality({m \in Kept : m <= i}) = j
\* The cap the adapter is documented to apply.
Cap == IF call.fn = "fetch_news" THEN call.num_articles ELSE SoccerCap
RecordFields ==
    IF call.fn = "fetch_news"
    THEN {"title", "description", "url", "source", "image", "publishedAt"}
    ELSE {"home", "away", "home_score", "away_score", "status"}

\* C4: every adapter call returns at most cap records in provider order.
\* Where no visited item raises, fetch_news returns the records of exactly
\* the first min(n, m) articles, and either scoreboard adapter returns at
\* most five games, the kept events' records in provider order.
C4_AtMostCapInOrder ==
    (pc = "returned" /\ GotList /\ \A i \in 1..Len(Visited) : ~ItemRaises(i))
    => /\ Len(items) <= Cap
       /\ call.fn = "fetch_news"
            => /\ Len(items) = Min(call.num_articles, Len(resp.body.items.list))
               /\ \A i \in 1..Len(items) :
                     items[i] = NormalizeArticle(resp.body.items.list[i]).out[1]
       /\ call.fn # "fetch_news"
            => \A j \in 1..Len(items) :
                  j <= Cardinality(Kept) /\ items[j] = ItemOutcome(Visited[KeptAt(j)]).out[1]

\* C5: record normalization.  Every field of every returned record is
\* present and not null.
C5_NoNullField ==
    pc = "returned"
    => \A i \in 1..Len(items) : \A f \in RecordFields : items[i][f].t = "str"

\* C10: all-or-nothing.  If any visited item raises while it is normalized,
\* the call returns the empty result; otherwise it returns the record of
\* every visited item that gives one, in order.  It never returns the
\* records built before the error.
C10_AllOrNothing ==
    pc = "returned"
    => IF \E i \in 1..Len(Visited) : ItemRaises(i)
       THEN items = <<>>
       ELSE /\ Len(items) = Cardinality(Kept)
            /\ \A j \in 1..Len(items) : items[j] = ItemOutcome(Visited[KeptAt(j)]).out[1]

\* fetch_news returned [] for a list whose first article is well formed and
\* whose second, within the cap, has a null source.
C10_Witness ==
    /\ pc = "returned"
    /\ call.fn = "fetch_news"
    /\ Len(Visited) >= 2
    /\ ~ItemRaises(1)
    /\ ItemRaises(2)
    /\ items = <<>>

\* ----------------------------------------------------- one news section
\* C6: summary truncation.  A summary of at most 200 characters is rendered
\* unchanged, with no ellipsis marker; a longer one as its first 200
\* characters followed by the marker.
C6_TruncationOnlyWhenLong ==
    (pc # "news_render" /\ Len(html) >= 3 /\ html[3].tag = "article")
    => LET summary == items[1].description.s
           rendered == html[3].fields[2]
       IN  IF Len(summary) <= SummaryBudget
           THEN rendered = summary
           ELSE rendered = SubSeq(summary, 1, SummaryBudget) \o Ellipsis

====
